---- MODULE Spec2Model ----
(***************************************************************************)
(* A model of the Library of Babel text generator (BabelGenerator), of the  *)
(* custom word lists manager (CustomWordListsManager) and of the custom    *)
(* word lists modal.                                                       *)
(*                                                                         *)
(* A JavaScript string is a sequence of one-character strings.  A 32-bit   *)
(* quantity is a pair <<hi, lo>> of 16-bit halves, so that no intermediate *)
(* value leaves the range of the checker's integers.  Math.random() is a   *)
(* tape of fractions <<num, den>> in [0, 1), read cyclically.              *)
(***************************************************************************)
EXTENDS Integers, Sequences, FiniteSets, TLC

\* op, args, ret: the last call made, its arguments and what it returned;
\* rnd: the Math.random tape of that call; lists, currentActiveList: the
\* fields of the word lists manager; state: the state of the modal.
VARIABLES op, args, rnd, ret, lists, currentActiveList, state

vars == <<op, args, rnd, ret, lists, currentActiveList, state>>

managerVars == <<lists, currentActiveList, state>>

(***************************************************************************)
(* Strings                                                                 *)
(***************************************************************************)

\* The characters of the model: the letters, the digits and the punctuation
\* the generator reads or writes, each with its UTF-16 code.
LowerLetters ==
  <<"a", "b", "c", "d", "e", "f", "g", "h", "i", "j", "k", "l", "m",
    "n", "o", "p", "q", "r", "s", "t", "u", "v", "w", "x", "y", "z">>

UpperLetters ==
  <<"A", "B", "C", "D", "E", "F", "G", "H", "I", "J", "K", "L", "M",
    "N", "O", "P", "Q", "R", "S", "T", "U", "V", "W", "X", "Y", "Z">>

DecDigits == <<"0", "1", "2", "3", "4", "5", "6", "7", "8", "9">>

Range(f) == {f[i] : i \in DOMAIN f}

PunctCode == (" " :> 32) @@ ("+" :> 43) @@ ("," :> 44) @@ ("-" :> 45)
             @@ ("." :> 46) @@ (":" :> 58)

AsciiChars ==
  Range(LowerLetters) \cup Range(UpperLetters) \cup Range(DecDigits)
    \cup DOMAIN PunctCode

IndexIn(f, c) == CHOOSE i \in DOMAIN f : f[i] = c

\* String.prototype.charCodeAt, as a table from character to code.
CharCode ==
  [c \in AsciiChars |->
     IF c \in Range(LowerLetters) THEN 96 + IndexIn(LowerLetters, c)
     ELSE IF c \in Range(UpperLetters) THEN 64 + IndexIn(UpperLetters, c)
     ELSE IF c \in Range(DecDigits) THEN 47 + IndexIn(DecDigits, c)
     ELSE PunctCode[c]]

UpperChars == Range(UpperLetters)

\* String.prototype.toLowerCase on one character, then on a string.
LowerChar(c) ==
  IF c \in UpperChars THEN LowerLetters[IndexIn(UpperLetters, c)] ELSE c

ToLowerCase(s) == [i \in 1..Len(s) |-> LowerChar(s[i])]

\* String.prototype.substring(0, n).
Substring0(s, n) == IF n >= Len(s) THEN s ELSE SubSeq(s, 1, n)

RECURSIVE SplitRange(_, _, _, _)
\* The fields of s[lo..hi].  The two halves are split on their own; the last
\* field of the left half and the first of the right half are one field.
SplitRange(s, sep, lo, hi) ==
  IF lo > hi THEN << <<>> >>
  ELSE IF lo = hi
  THEN IF s[lo] = sep THEN << <<>>, <<>> >> ELSE << <<s[lo]>> >>
  ELSE LET mid   == (lo + hi) \div 2
           left  == SplitRange(s, sep, lo, mid)
           right == SplitRange(s, sep, mid + 1, hi)
       IN  SubSeq(left, 1, Len(left) - 1)
             \o << left[Len(left)] \o right[1] >> \o Tail(right)

\* String.prototype.split with a one-character separator.
Split(s, sep) == SplitRange(s, sep, 1, Len(s))

RECURSIVE JoinRange(_, _, _, _)
JoinRange(ws, sep, lo, hi) ==
  IF lo > hi THEN <<>>
  ELSE IF lo = hi THEN ws[lo]
  ELSE LET mid == (lo + hi) \div 2
       IN  JoinRange(ws, sep, lo, mid) \o <<sep>> \o JoinRange(ws, sep, mid + 1, hi)

\* Array.prototype.join.
Join(ws, sep) == JoinRange(ws, sep, 1, Len(ws))

\* The white space String.prototype.trim removes, among the characters of
\* the model.
WhiteSpace == {" ", "\t", "\n", "\r"}

\* The first and the last position of s holding a character outside chars;
\* Len(s) + 1 and 0 when there is none.
FirstOutside(s, chars) ==
  IF \A i \in 1..Len(s) : s[i] \in chars THEN Len(s) + 1
  ELSE CHOOSE i \in 1..Len(s) :
         s[i] \notin chars /\ \A j \in 1..(i - 1) : s[j] \in chars

LastOutside(s, chars) ==
  IF \A i \in 1..Len(s) : s[i] \in chars THEN 0
  ELSE CHOOSE i \in 1..Len(s) :
         s[i] \notin chars /\ \A j \in (i + 1)..Len(s) : s[j] \in chars

TrimStart(s) == SubSeq(s, FirstOutside(s, WhiteSpace), Len(s))

TrimEnd(s) == SubSeq(s, 1, LastOutside(s, WhiteSpace))

\* String.prototype.trim.
Trim(s) == TrimEnd(TrimStart(s))

RECURSIVE NatToString(_)
NatToString(n) ==
  IF n < 10 THEN <<DecDigits[n + 1]>>
  ELSE Append(NatToString(n \div 10), DecDigits[(n % 10) + 1])

\* Number-to-string conversion of a template literal, for an integer.
NumberToString(n) == IF n < 0 THEN <<"-">> \o NatToString(-n) ELSE NatToString(n)

(***************************************************************************)
(* parseInt                                                                *)
(***************************************************************************)

\* The value of a digit character in base 16, or 16 for any other character.
DigitValue(c) ==
  LET code == IF c \in AsciiChars THEN CharCode[c] ELSE 0
  IN  IF code >= 48 /\ code <= 57 THEN code - 48
      ELSE IF code >= 65 /\ code <= 70 THEN code - 55
      ELSE IF code >= 97 /\ code <= 102 THEN code - 87
      ELSE 16

RECURSIVE DigitPrefix(_, _, _)
\* The longest prefix of s[i..] made of digits of the radix.
DigitPrefix(s, i, radix) ==
  IF i <= Len(s) /\ DigitValue(s[i]) < radix
  THEN <<s[i]>> \o DigitPrefix(s, i + 1, radix)
  ELSE <<>>

RECURSIVE DigitsValue(_, _)
DigitsValue(ds, radix) ==
  IF ds = <<>> THEN 0
  ELSE DigitsValue(SubSeq(ds, 1, Len(ds) - 1), radix) * radix
         + DigitValue(ds[Len(ds)])

NaN == [nan |-> TRUE, val |-> 0]

\* parseInt(s) with no radix: leading white space is skipped, a sign is read,
\* a 0x or 0X prefix selects base 16, and the longest digit prefix is the
\* value; whatever follows the digits is ignored.  No digit at all is NaN.
ParseInt(s) ==
  LET t      == TrimStart(s)
      signed == t # <<>> /\ t[1] \in {"+", "-"}
      sign   == IF t # <<>> /\ t[1] = "-" THEN -1 ELSE 1
      u      == IF signed THEN Tail(t) ELSE t
      hex    == Len(u) >= 2 /\ u[1] = "0" /\ u[2] \in {"x", "X"}
      radix  == IF hex THEN 16 ELSE 10
      body   == IF hex THEN SubSeq(u, 3, Len(u)) ELSE u
      ds     == DigitPrefix(body, 1, radix)
  IN  IF ds = <<>> THEN NaN
      ELSE [nan |-> FALSE, val |-> sign * DigitsValue(ds, radix)]

\* A comparison with NaN is false.
InRange(n, lo, hi) == ~n.nan /\ n.val >= lo /\ n.val <= hi

(***************************************************************************)
(* Address codec                                                           *)
(***************************************************************************)

HexDigitChars ==
  {"0", "1", "2", "3", "4", "5", "6", "7", "8", "9",
   "A", "B", "C", "D", "E", "F", "a", "b", "c", "d", "e", "f"}

\* /^[0-9A-Fa-f]+$/.test(s)
IsHexString(s) == s # <<>> /\ \A i \in 1..Len(s) : s[i] \in HexDigitChars

\* The template with the volume written before the shelf.
FormatAddressVolumeFirst(hexagon, wall, shelf, volume, page) ==
  hexagon \o <<":">> \o NumberToString(wall) \o <<":">> \o NumberToString(volume)
          \o <<":">> \o NumberToString(shelf) \o <<":">> \o NumberToString(page)

\* The template `${hexagon}:${wall}:${shelf}:${volume}:${page}`.
FormatAddress(hexagon, wall, shelf, volume, page) ==
  hexagon \o <<":">> \o NumberToString(wall) \o <<":">> \o NumberToString(shelf)
          \o <<":">> \o NumberToString(volume) \o <<":">> \o NumberToString(page)

NumericRangesOk(wall, shelf, volume, page) ==
  /\ InRange(ParseInt(wall), 0, 3)
  /\ InRange(ParseInt(shelf), 0, 31)
  /\ InRange(ParseInt(volume), 0, 31)
  /\ InRange(ParseInt(page), 0, 409)

isValidAddress(address) ==
  LET parts == Split(address, ":")
  IN  IF Len(parts) # 5 THEN FALSE
      ELSE IF ~IsHexString(parts[1]) THEN FALSE
      ELSE NumericRangesOk(parts[2], parts[3], parts[4], parts[5])

Null == [null |-> TRUE]

\* parseAddress with the shelf and volume fields read in the wrong order.
parseAddressSwapped(address) ==
  IF ~isValidAddress(address) THEN Null
  ELSE LET parts == Split(address, ":")
       IN  [null    |-> FALSE,
            hexagon |-> parts[1],
            wall    |-> ParseInt(parts[2]).val,
            shelf   |-> ParseInt(parts[4]).val,
            volume  |-> ParseInt(parts[3]).val,
            page    |-> ParseInt(parts[5]).val]

parseAddress(address) ==
  IF ~isValidAddress(address) THEN Null
  ELSE LET parts == Split(address, ":")
       IN  [null    |-> FALSE,
            hexagon |-> parts[1],
            wall    |-> ParseInt(parts[2]).val,
            shelf   |-> ParseInt(parts[3]).val,
            volume  |-> ParseInt(parts[4]).val,
            page    |-> ParseInt(parts[5]).val]

(***************************************************************************)
(* 32-bit arithmetic on <<hi, lo>> pairs                                   *)
(***************************************************************************)

Half == 2^16

Hi(u) == u[1]

Lo(u) == u[2]

\* The pair of a non-negative number below 2^31.
ToWord(n) == <<n \div Half, n % Half>>

\* (a + b) mod 2^32
Add32(a, b) ==
  LET lo == Lo(a) + Lo(b)
  IN  <<(Hi(a) + Hi(b) + (lo \div Half)) % Half, lo % Half>>

\* (a - b) mod 2^32
Sub32(a, b) ==
  LET lo == Lo(a) - Lo(b)
      borrow == IF lo < 0 THEN 1 ELSE 0
  IN  <<(Hi(a) - Hi(b) - borrow + Half) % Half, (lo + Half) % Half>>

\* x << 5 on a 32-bit integer: the low 32 bits of 32 * x.
Shl5(u) == <<((Hi(u) * 32) + (Lo(u) \div (2^11))) % Half, (Lo(u) * 32) % Half>>

\* A pair read as a signed 32-bit integer is negative when bit 31 is set.
IsNegative(u) == Hi(u) >= 2^15

(***************************************************************************)
(* hashToSeed                                                              *)
(***************************************************************************)

maxSeed == 2147483647

\* One round of the loop: hash = ((hash << 5) - hash) + char; hash = hash & hash.
\* The sum is exact in a double, and hash & hash keeps its low 32 bits.
HashStep(hash, char) == Add32(Sub32(Shl5(hash), hash), ToWord(char))

RECURSIVE HashLoop(_, _, _, _)
\* The rounds of the loop for str[lo..hi], entered with hash: the value of
\* hash after each round, the rounds of the first half, then those of the
\* rest.
HashLoop(str, lo, hi, hash) ==
  IF lo > hi THEN <<>>
  ELSE IF lo = hi THEN <<HashStep(hash, CharCode[str[lo]])>>
  ELSE LET mid   == (lo + hi) \div 2
           first == HashLoop(str, lo, mid, hash)
       IN  first \o HashLoop(str, mid + 1, hi, first[Len(first)])

\* The value of hash when the loop ends.
FinalHash(str) ==
  IF str = <<>> THEN <<0, 0>> ELSE HashLoop(str, 1, Len(str), <<0, 0>>)[Len(str)]

\* hash % maxSeed without Math.abs: the remainder of a negative hash keeps
\* its sign.
SignedModMaxSeed(hash) ==
  IF IsNegative(hash)
  THEN LET complement == ((Half - 1 - Hi(hash)) * Half) + (Half - 1 - Lo(hash))
       IN  -(((complement % maxSeed) + 1) % maxSeed)
  ELSE ((Hi(hash) * Half) + Lo(hash)) % maxSeed

\* Math.abs(hash) % maxSeed for the signed integer a pair stands for.  The
\* magnitude of a negative hash is its complement plus one, and may be 2^31.
AbsModMaxSeed(hash) ==
  IF IsNegative(hash)
  THEN LET complement == ((Half - 1 - Hi(hash)) * Half) + (Half - 1 - Lo(hash))
       IN  ((complement % maxSeed) + 1) % maxSeed
  ELSE ((Hi(hash) * Half) + Lo(hash)) % maxSeed

\* hashToSeed with Math.abs left out.
hashToSeedNoAbs(str) == SignedModMaxSeed(FinalHash(str))

hashToSeed(str) == AbsModMaxSeed(FinalHash(str))

(***************************************************************************)
(* The linear congruential generator                                       *)
(***************************************************************************)

LcgA == 1664525

LcgC == 1013904223

charsetSize == 29

\* "abcdefghijklmnopqrstuvwxyz .,"
charset == LowerLetters \o <<" ", ".", ",">>

hexChars ==
  <<"0", "1", "2", "3", "4", "5", "6", "7", "8", "9", "A", "B", "C", "D", "E", "F">>

\* String.prototype.charAt: the empty string outside the string.
CharAt(s, i) == IF i >= 0 /\ i < Len(s) THEN <<s[i + 1]>> ELSE <<>>

\* The step with the modulus 2^31 in place of 2^32.
LcgStepModulus31(current) ==
  LET aHi == LcgA \div Half
      aLo == LcgA % Half
      low == (aLo * Lo(current)) + (LcgC % Half)
      high == (low \div Half) + (aHi * Lo(current))
                + ((aLo * Hi(current)) % Half) + (LcgC \div Half)
  IN  <<high % (2^15), low % Half>>

\* current = (a * current + c) % m with m = 2^32.  The product stays below
\* 2^53, so the double arithmetic of the source is exact.
LcgStep(current) ==
  LET aHi == LcgA \div Half
      aLo == LcgA % Half
      low == (aLo * Lo(current)) + (LcgC % Half)
      high == (low \div Half) + (aHi * Lo(current))
                + ((aLo * Hi(current)) % Half) + (LcgC \div Half)
  IN  <<high % Half, low % Half>>

\* current % n for a small n.
WordMod(current, n) ==
  (((Hi(current) % n) * (Half % n)) + (Lo(current) % n)) % n

RECURSIVE RawTextLoop(_, _)
\* n rounds of the loop from state current: the text they append and the
\* state they leave.  n rounds are the first half of them, then the rest.
RawTextLoop(current, n) ==
  IF n <= 0 THEN [text |-> <<>>, current |-> current]
  ELSE IF n = 1
  THEN LET next      == LcgStep(current)
           charIndex == WordMod(next, charsetSize)
       IN  [text |-> CharAt(charset, charIndex), current |-> next]
  ELSE LET first == RawTextLoop(current, n \div 2)
           rest  == RawTextLoop(first.current, n - (n \div 2))
       IN  [text |-> first.text \o rest.text, current |-> rest.current]

generateRawText(seed, length) == RawTextLoop(ToWord(seed), length).text

(***************************************************************************)
(* Math.random                                                             *)
(***************************************************************************)

\* Math.floor(Math.random() * n), for draw number k of the tape.
RandomInt(tape, k, n) ==
  LET r == tape[(k % Len(tape)) + 1]
  IN  (r[1] * n) \div r[2]

RECURSIVE SeededHexLoop(_, _, _, _)
SeededHexLoop(current, i, length, result) ==
  IF i >= length THEN result
  ELSE LET next == LcgStep(current)
       IN  SeededHexLoop(next, i + 1, length,
                         result \o CharAt(hexChars, WordMod(next, Len(hexChars))))

RECURSIVE RandomHexLoop(_, _, _, _, _)
RandomHexLoop(tape, k, i, length, result) ==
  IF i >= length THEN result
  ELSE RandomHexLoop(tape, k + 1, i + 1, length,
                     result \o CharAt(hexChars, RandomInt(tape, k, Len(hexChars))))

\* generateRandomHex(length, seed): the seeded branch.
generateSeededHex(length, seed) == SeededHexLoop(ToWord(seed), 0, length, <<>>)

\* generateRandomHex(length): the unseeded branch, reading the tape from draw k.
generateRandomHex(length, tape, k) == RandomHexLoop(tape, k, 0, length, <<>>)

(***************************************************************************)
(* formatForTyping                                                         *)
(***************************************************************************)

PunctChars == {".", ","}

IsPunctAt(word, i) == i >= 1 /\ i <= Len(word) /\ word[i] \in PunctChars

\* Position i of word lies in a run of two or more periods and commas.
InPunctRun(word, i) ==
  IsPunctAt(word, i) /\ (IsPunctAt(word, i - 1) \/ IsPunctAt(word, i + 1))

RECURSIVE DropPunctRuns(_, _, _)
\* word[lo..hi] without the characters that lie in such a run.
DropPunctRuns(word, lo, hi) ==
  IF lo > hi THEN <<>>
  ELSE IF lo = hi THEN IF InPunctRun(word, lo) THEN <<>> ELSE <<word[lo]>>
  ELSE LET mid == (lo + hi) \div 2
       IN  DropPunctRuns(word, lo, mid) \o DropPunctRuns(word, mid + 1, hi)

\* word.replace(/[.,]{2,}/g, '')
RemovePunctRuns(word) == DropPunctRuns(word, 1, Len(word))

\* word.replace(/^[.,]+|[.,]+$/g, '')
TrimPunct(word) ==
  SubSeq(word, FirstOutside(word, PunctChars), LastOutside(word, PunctChars))

\* The callback of words.map: the shaped word and the number of draws made
\* once it returns.
ShapeWord(word, tape, k) ==
  LET cleaned == TrimPunct(RemovePunctRuns(word))
      short   == Len(cleaned) < 2
      padded  == IF short
                 THEN cleaned \o CharAt(charset, RandomInt(tape, k, 26))
                 ELSE cleaned
      cut     == IF Len(padded) > 15 THEN Substring0(padded, 15) ELSE padded
  IN  [word |-> ToLowerCase(cut), k |-> IF short THEN k + 1 ELSE k]

RECURSIVE MapShape(_, _, _, _, _)
\* words.map(...) over words[lo..hi], in order: the mapped words and the
\* number of draws made once the last callback returns.
MapShape(words, lo, hi, tape, k) ==
  IF lo > hi THEN [words |-> <<>>, k |-> k]
  ELSE IF lo = hi
  THEN LET w == ShapeWord(words[lo], tape, k)
       IN  [words |-> <<w.word>>, k |-> w.k]
  ELSE LET mid   == (lo + hi) \div 2
           left  == MapShape(words, lo, mid, tape, k)
           right == MapShape(words, mid + 1, hi, tape, left.k)
       IN  [words |-> left.words \o right.words, k |-> right.k]

NonBlank(word) == Len(Trim(word)) > 0

\* The length filter with its lower limit at one character.
LengthOkFromOne(word) == Len(word) >= 1 /\ Len(word) <= 15

LengthOk(word) == Len(word) >= 2 /\ Len(word) <= 15

RECURSIVE RandomLetters(_, _, _)
\* n letters drawn from the tape, from draw k on.
RandomLetters(tape, k, n) ==
  IF n <= 0 THEN <<>>
  ELSE CharAt(charset, RandomInt(tape, k, 26)) \o RandomLetters(tape, k + 1, n - 1)

generateRandomWord(tape, k) ==
  LET length == RandomInt(tape, k, 6) + 3
  IN  [word |-> RandomLetters(tape, k + 1, length), k |-> k + 1 + length]

RECURSIVE FillWords(_, _, _)
\* while (words.length < 30) words.push(this.generateRandomWord())
FillWords(words, tape, k) ==
  IF Len(words) >= 30 THEN words
  ELSE LET w == generateRandomWord(tape, k)
       IN  FillWords(Append(words, w.word), tape, w.k)

Max(a, b) == IF a >= b THEN a ELSE b

Min(a, b) == IF a <= b THEN a ELSE b

\* The target without its floor of 20 words.
TargetWordsNoFloor(targetLength) == (2 * targetLength) \div 11

\* Math.max(20, Math.floor(targetLength / 5.5)) for an integer targetLength.
TargetWords(targetLength) == Max(20, (2 * targetLength) \div 11)

\* The words of formatForTyping before the final slice: split, filtered,
\* shaped, filtered by length, then filled up to 30.
ShapedWords(rawText, tape, k) ==
  LET split  == SelectSeq(Split(rawText, " "), NonBlank)
      mapped == MapShape(split, 1, Len(split), tape, k)
      kept   == SelectSeq(mapped.words, LengthOk)
  IN  FillWords(kept, tape, mapped.k)

formatForTyping(rawText, targetLength, tape, k) ==
  LET words == ShapedWords(rawText, tape, k)
  IN  Join(SubSeq(words, 1, Min(TargetWords(targetLength), Len(words))), " ")

(***************************************************************************)
(* generatePage, generateRandomPage, searchForText                         *)
(***************************************************************************)

\* The value of a constant of the code: the element of a one-element set.
\* Each "const x = e" below binds x as  x \in {e}, so that e is computed once.
Const(S) == CHOOSE x \in S : TRUE

\* The body of generatePage once its parameters have their values; k is the
\* number of draws the default parameters made.  Its constants are address,
\* seed, rawText and formattedText, in that order.
generatePage(hexagon, wall, shelf, volume, page, length, tape, k) ==
  Const({Const({Const({Const({
      [text     |-> formattedText,
       address  |-> address,
       metadata |-> [hexagon   |-> hexagon,
                     wall      |-> wall,
                     shelf     |-> shelf,
                     volume    |-> volume,
                     page      |-> page,
                     seed      |-> seed,
                     wordCount |-> Len(Split(formattedText, " "))]]
    : formattedText \in {formatForTyping(rawText, length, tape, k)}})
    : rawText \in {generateRawText(seed, length * 2)}})
    : seed \in {hashToSeed(address)}})
    : address \in {FormatAddress(hexagon, wall, shelf, volume, page)}})

DefaultLength == 200

\* generatePage() with every parameter omitted: the defaults are evaluated in
\* parameter order, each coordinate a draw of the tape.
generatePageDefaults(tape) ==
  generatePage(generateRandomHex(8, tape, 0),
               RandomInt(tape, 8, 4),
               RandomInt(tape, 9, 32),
               RandomInt(tape, 10, 32),
               RandomInt(tape, 11, 410),
               DefaultLength, tape, 12)

generateRandomPage(length, tape) ==
  generatePage(generateRandomHex(8, tape, 0),
               RandomInt(tape, 8, 4),
               RandomInt(tape, 9, 32),
               RandomInt(tape, 10, 32),
               RandomInt(tape, 11, 410),
               length, tape, 12)

\* The shift one bit short.
ShrOneShort(seed, n) == seed \div (2^(n - 1))

\* seed >> n for a seed below 2^31.
Shr(seed, n) == seed \div (2^n)

\* words.splice(position, 0, item)
InsertAt(words, position, item) ==
  SubSeq(words, 1, position) \o <<item>> \o SubSeq(words, position + 1, Len(words))

\* The page returned for a page result and the lowercased search text.
Embed(result, searchText, lowered) ==
  LET words   == Split(result.text, " ")
      spliced == InsertAt(words, Len(words) \div 3, lowered)
  IN  IF Len(searchText) < 20 /\ Len(searchText) > 2
      THEN [result EXCEPT !.text = Join(spliced, " "),
                          !.metadata.wordCount = Len(spliced)]
      ELSE result

\* Its constants are searchSeed, hexagon and result, in that order.
searchForText(searchText, length, tape) ==
  Const({Const({Const({
      Embed(result, searchText, ToLowerCase(searchText))
    : result \in {generatePage(hexagon, searchSeed % 4, Shr(searchSeed, 2) % 32,
                               Shr(searchSeed, 7) % 32, Shr(searchSeed, 12) % 410,
                               length, tape, 0)}})
    : hexagon \in {generateSeededHex(8, searchSeed)}})
    : searchSeed \in {hashToSeed(ToLowerCase(searchText))}})

(***************************************************************************)
(* Calls.  A call's arguments are drawn when the system starts; an action  *)
(* makes the call and records what it returns.  The generator keeps no     *)
(* state between calls, so a call may be repeated at any time.             *)
(***************************************************************************)

NoResult == [pending |-> TRUE]

\* The manager constructed over an empty store, and the modal as declared.
InitManager ==
  /\ lists = <<>>
  /\ currentActiveList = Null
  /\ state = [isEditing |-> FALSE, editingListId |-> Null, currentLists |-> <<>>]

\* Every string of at most n characters of alphabet.
StringsUpTo(alphabet, n) == UNION {[1..m -> alphabet] : m \in 0..n}

MaxHexLen == 2

CoordHexagons == StringsUpTo({"0", "A", "f"}, MaxHexLen) \ {<<>>}

\* Addresses in the declared ranges, in canonical form.
CoordCalls ==
  {[address |-> FormatAddress(h, w, s, v, p), coords |-> <<h, w, s, v, p>>] :
     h \in CoordHexagons, w \in 0..3, s \in {0, 7, 10, 31}, v \in {0, 31},
     p \in {0, 9, 99, 100, 409}}

HexagonFields == StringsUpTo({"A", "G"}, MaxHexLen)

WallFields ==
  {<<"0">>, <<"3">>, <<"4">>, <<"1", ".", "5">>, <<"1", "x">>, <<"-", "1">>, <<>>}

ShelfFields == {<<"0">>, <<"3", "1">>, <<"3", "2">>, <<" ", "5">>}

VolumeFields == {<<"0">>, <<"3", "1">>, <<"-", "1">>, <<"0", "x", "1", "F">>}

PageFields == {<<"0">>, <<"4", "0", "9">>, <<"4", "1", "0">>, <<"1", "0", "0">>}

\* Address strings of four, five and six fields, well formed or not.
TextCalls ==
  LET five == {<<h, w, s, v, p>> : h \in HexagonFields, w \in WallFields,
                 s \in ShelfFields, v \in VolumeFields, p \in PageFields}
      four == {SubSeq(f, 1, 4) : f \in five}
      six  == {Append(f, <<"0">>) : f \in {g \in five : g[2] = <<"0">>}}
  IN  {[address |-> Join(f, ":"), coords |-> <<>>] : f \in five \cup four \cup six}

InitAddr ==
  /\ op = "idle"
  /\ args \in CoordCalls \cup TextCalls
  /\ rnd = <<>>
  /\ ret = NoResult
  /\ InitManager

IsValidAddress ==
  /\ op' = "isValidAddress"
  /\ ret' = [valid |-> isValidAddress(args.address)]
  /\ UNCHANGED <<args, rnd, managerVars>>

ParseAddress ==
  /\ op' = "parseAddress"
  /\ ret' = parseAddress(args.address)
  /\ UNCHANGED <<args, rnd, managerVars>>

NextAddr == IsValidAddress \/ ParseAddress

SpecAddr == InitAddr /\ [][NextAddr]_vars

(***************************************************************************)
(* Properties of the address codec                                         *)
(***************************************************************************)

\* C1: parsing the canonical string of a valid address (a hexagon of hex
\* digits, wall 0..3, shelf 0..31, volume 0..31, page 0..409) returns exactly
\* that address: the same hexagon string and the same four integers.
C1_ParseFormatRoundTrip ==
  (op = "parseAddress" /\ args.coords # <<>>) =>
    ret = [null    |-> FALSE,
           hexagon |-> args.coords[1],
           wall    |-> args.coords[2],
           shelf   |-> args.coords[3],
           volume  |-> args.coords[4],
           page    |-> args.coords[5]]

\* A canonical address with a two-digit shelf, a two-digit volume that
\* differs from it and a three-digit page has been parsed.
C1_Witness ==
  /\ op = "parseAddress"
  /\ args.coords # <<>>
  /\ args.coords[3] = 10
  /\ args.coords[4] = 31
  /\ args.coords[5] = 409
  /\ ~ret.null

\* A field that is, as a whole, a decimal integer: an optional minus sign,
\* then one or more decimal digits and nothing else.
IsWholeInteger(field) ==
  LET digits == IF field # <<>> /\ field[1] = "-" THEN Tail(field) ELSE field
  IN  digits # <<>> /\ \A i \in 1..Len(digits) : digits[i] \in Range(DecDigits)

WholeIntegerIn(field, lo, hi) ==
  /\ IsWholeInteger(field)
  /\ LET digits == IF field[1] = "-" THEN Tail(field) ELSE field
         value  == DigitsValue(digits, 10)
     IN  IF field[1] = "-" THEN -value >= lo /\ -value <= hi
         ELSE value >= lo /\ value <= hi

\* Exactly five fields, a hexagon of hex digits, and four whole-field
\* integers in their ranges.
WellFormedAddress(address) ==
  LET parts == Split(address, ":")
  IN  /\ Len(parts) = 5
      /\ IsHexString(parts[1])
      /\ WholeIntegerIn(parts[2], 0, 3)
      /\ WholeIntegerIn(parts[3], 0, 31)
      /\ WholeIntegerIn(parts[4], 0, 31)
      /\ WholeIntegerIn(parts[5], 0, 409)

\* C2: isValidAddress returns true, and parseAddress a non-null result, only
\* for a string of exactly five fields whose hexagon is made of hex digits
\* and whose wall, shelf, volume and page fields are each, as a whole field,
\* an integer in its range; every other string yields false and null.
C2_AcceptsOnlyWellFormed ==
  /\ (op = "isValidAddress" /\ ret.valid) => WellFormedAddress(args.address)
  /\ (op = "parseAddress" /\ ~ret.null) => WellFormedAddress(args.address)

(***************************************************************************)
(* hashToSeed calls                                                        *)
(***************************************************************************)

MaxStrLen == 6

HashCalls == {[str |-> t] : t \in StringsUpTo({"0", "a", "z"}, MaxStrLen)}

InitHash ==
  /\ op = "idle"
  /\ args \in HashCalls
  /\ rnd = <<>>
  /\ ret = NoResult
  /\ InitManager

HashToSeed ==
  /\ op' = "hashToSeed"
  /\ ret' = [seed |-> hashToSeed(args.str)]
  /\ UNCHANGED <<args, rnd, managerVars>>

NextHash == HashToSeed

SpecHash == InitHash /\ [][NextHash]_vars

(***************************************************************************)
(* Properties of hashToSeed                                                *)
(***************************************************************************)

\* C3: hashToSeed returns, for every string, an integer in 0..2147483647;
\* a second call with the same string returns the same seed; and the empty
\* string yields seed 0.
C3_SeedInRangeAndRepeatable ==
  [][op' = "hashToSeed" =>
       /\ ret'.seed \in 0..2147483647
       /\ (args'.str = <<>> => ret'.seed = 0)
       /\ (op = "hashToSeed" /\ args' = args => ret'.seed = ret.seed)]_vars

\* A string whose 32-bit hash is negative has been hashed.
C3_Witness ==
  /\ op = "hashToSeed"
  /\ args.str = <<"z", "z", "z", "z", "z", "z">>
  /\ ret.seed = 685785664

RECURSIVE WrappedHash(_)
\* The hash of the claim: 31 * hash + charCode for each character in turn,
\* kept to 32 bits, as a pair.
WrappedHash(str) ==
  IF str = <<>> THEN <<0, 0>>
  ELSE LET h   == WrappedHash(SubSeq(str, 1, Len(str) - 1))
           low == (31 * Lo(h)) + CharCode[str[Len(str)]]
       IN  <<((31 * Hi(h)) + (low \div Half)) % Half, low % Half>>

\* For a pair that stands for a negative integer v, the number v + 2^31.
AboveMinimum(u) == ((Hi(u) - 2^15) * Half) + Lo(u)

\* v mod (2^31 - 1), the non-negative residue of the signed integer v a
\* pair stands for: a negative v is (v + 2^31) - 1 - (2^31 - 1).
NonNegativeResidue(u) ==
  IF IsNegative(u)
  THEN IF AboveMinimum(u) = 0 THEN maxSeed - 1 ELSE (AboveMinimum(u) - 1) % maxSeed
  ELSE ((Hi(u) * Half) + Lo(u)) % maxSeed

\* |v| mod (2^31 - 1): the magnitude of a negative v is
\* (2^31 - 1) - (v + 2^31) + 1.
MagnitudeResidue(u) ==
  IF IsNegative(u)
  THEN (((maxSeed - AboveMinimum(u)) % maxSeed) + 1) % maxSeed
  ELSE ((Hi(u) * Half) + Lo(u)) % maxSeed

\* C4, as claimed: the seed is the non-negative residue modulo 2^31 - 1 of
\* the 32-bit wrapped hash, also when that hash is negative.
C4_SeedIsNonNegativeResidue ==
  op = "hashToSeed" => ret.seed = NonNegativeResidue(WrappedHash(args.str))

\* C4, as amended: the seed is the magnitude of the 32-bit wrapped signed
\* hash, reduced modulo 2^31 - 1; it is the non-negative residue of the hash
\* only when the hash is not negative.
C4_SeedIsMagnitudeResidue ==
  op = "hashToSeed" =>
    /\ ret.seed = MagnitudeResidue(WrappedHash(args.str))
    /\ (~IsNegative(WrappedHash(args.str)) =>
          ret.seed = NonNegativeResidue(WrappedHash(args.str)))

\* A string whose wrapped hash is negative has been hashed, and its seed is
\* not the non-negative residue of that hash.
C4_Witness ==
  /\ op = "hashToSeed"
  /\ IsNegative(WrappedHash(args.str))
  /\ ret.seed # NonNegativeResidue(WrappedHash(args.str))

(***************************************************************************)
(* generateRawText and formatForTyping calls                               *)
(***************************************************************************)

MaxRawLen == 40

RawTextCalls ==
  {[fn |-> "generateRawText", seed |-> sd, length |-> n] :
     sd \in {0, 1, 123139032, 2147483646}, n \in 0..MaxRawLen}

\* The values Math.random() takes: 0 and a value just below 1, so that
\* Math.floor(Math.random() * n) is 0 or n - 1.
RandomValues == {<<0, 1>>, <<999, 1000>>}

TapePeriod == 1

Tapes == [1..TapePeriod -> RandomValues]

\* Words of a raw text: one letter, punctuation alone, punctuation inside,
\* punctuation in runs and at the ends, empty, and longer than 15 characters
\* with a period in fifteenth place.
RawWords ==
  {<<"a">>, <<".">>, <<"a", ".", "b">>,
   <<".", ".", "a", ",", ",", "b", ".">>, <<>>,
   <<"a", "b", "c", "d", "e", "f", "g", "h", "i", "j", "k", "l", "m", "n",
     ".", "p", "q">>}

MaxRawWords == 2

\* n copies of word, a space after each but the last.
Repeated(word, n) == Join([i \in 1..n |-> word], " ")

RawTexts ==
  {Join(ws, " ") : ws \in UNION {[1..n -> RawWords] : n \in 0..MaxRawWords}}
    \cup {Repeated(<<"a", "b">>, n) : n \in {29, 31, 37}}
    \cup {generateRawText(123139032, 100)}

FormatCalls ==
  {[fn |-> "formatForTyping", rawText |-> t, targetLength |-> n] :
     t \in RawTexts, n \in {-5, 0, 116, 171, 200}}

InitText ==
  /\ op = "idle"
  /\ args \in RawTextCalls \cup FormatCalls
  /\ rnd = <<>>
  /\ ret = NoResult
  /\ InitManager

GenerateRawText ==
  /\ args.fn = "generateRawText"
  /\ op' = "generateRawText"
  /\ ret' = [text |-> generateRawText(args.seed, args.length)]
  /\ UNCHANGED <<args, rnd, managerVars>>

FormatForTyping ==
  /\ args.fn = "formatForTyping"
  /\ op = "idle"
  /\ \E tape \in Tapes :
       /\ rnd' = tape
       /\ ret' = [text |-> formatForTyping(args.rawText, args.targetLength, tape, 0)]
  /\ op' = "formatForTyping"
  /\ UNCHANGED <<args, managerVars>>

NextText == GenerateRawText \/ FormatForTyping

SpecText == InitText /\ [][NextText]_vars

(***************************************************************************)
(* Properties of generateRawText                                           *)
(***************************************************************************)

\* The k-th byte of a number, byte 0 being the lowest.
Byte(n, k) == (n \div (256^k)) % 256

\* (1664525 * x + 1013904223) mod 2^32 on the four bytes of x, lowest first.
ClaimedStep(x) ==
  LET a(k) == Byte(1664525, k)
      c(k) == Byte(1013904223, k)
      t0 == (a(0) * x[1]) + c(0)
      t1 == (a(0) * x[2]) + (a(1) * x[1]) + c(1) + (t0 \div 256)
      t2 == (a(0) * x[3]) + (a(1) * x[2]) + (a(2) * x[1]) + c(2) + (t1 \div 256)
      t3 == (a(0) * x[4]) + (a(1) * x[3]) + (a(2) * x[2]) + (a(3) * x[1])
              + c(3) + (t2 \div 256)
  IN  <<t0 % 256, t1 % 256, t2 % 256, t3 % 256>>

\* The states x_1, ..., x_n that follow the state x.
RECURSIVE ClaimedStatesFrom(_, _)
ClaimedStatesFrom(x, n) ==
  IF n = 0 THEN <<>>
  ELSE IF n = 1 THEN <<ClaimedStep(x)>>
  ELSE LET h == n \div 2
           first == ClaimedStatesFrom(x, h)
       IN  first \o ClaimedStatesFrom(first[h], n - h)

\* The states x_0 = seed, x_1, ..., x_n of the claim, as a sequence whose
\* element i + 1 is x_i.
ClaimedStates(seed, n) ==
  LET x0 == <<Byte(seed, 0), Byte(seed, 1), Byte(seed, 2), Byte(seed, 3)>>
  IN  <<x0>> \o ClaimedStatesFrom(x0, n)

\* x mod 29 for the four bytes of x.
ClaimedSymbol(x) ==
  charset[((x[1] + (x[2] * (256 % 29)) + (x[3] * (65536 % 29))
              + (x[4] * (16777216 % 29))) % 29) + 1]

\* C5: generateRawText(seed, n) returns exactly n symbols, the i-th being
\* charset[x_i mod 29] for x_0 = seed and
\* x_i = (1664525 * x_(i-1) + 1013904223) mod 2^32, so that a repeated call
\* with the same seed and length returns the same stream.
C5_RawTextIsLcgStream ==
  [][op' = "generateRawText" =>
       /\ Len(ret'.text) = args'.length
       /\ LET x == ClaimedStates(args'.seed, args'.length)
          IN  \A i \in 1..args'.length : ret'.text[i] = ClaimedSymbol(x[i + 1])
       /\ (op = "generateRawText" /\ args' = args => ret'.text = ret.text)]_vars

\* The longest stream of the largest seed has been generated.
C5_Witness ==
  /\ op = "generateRawText"
  /\ args.seed = 2147483646
  /\ args.length = MaxRawLen
  /\ Len(ret.text) = MaxRawLen

(***************************************************************************)
(* Properties of formatForTyping                                           *)
(***************************************************************************)

\* The space-separated tokens of a returned text.
Tokens(text) == Split(text, " ")

IsLetter(c) == c \in Range(LowerLetters)

\* C6, as claimed: every token of the returned string has a length in
\* [2, 15] and consists only of lowercase letters; no period or comma
\* remains in any token.
C6_TokensAreLetters ==
  op = "formatForTyping" =>
    LET tokens == Tokens(ret.text)
    IN  \A i \in 1..Len(tokens) :
          /\ Len(tokens[i]) >= 2 /\ Len(tokens[i]) <= 15
          /\ \A j \in 1..Len(tokens[i]) : IsLetter(tokens[i][j])

\* C6, as amended: every token has a length in [2, 15], begins with a
\* lowercase letter and consists only of lowercase letters, periods and
\* commas, no two of the periods and commas adjacent.
C6_TokensAreLettersAndSinglePunctuation ==
  op = "formatForTyping" =>
    LET tokens == Tokens(ret.text)
    IN  \A i \in 1..Len(tokens) :
          /\ Len(tokens[i]) >= 2 /\ Len(tokens[i]) <= 15
          /\ IsLetter(tokens[i][1])
          /\ \A j \in 1..Len(tokens[i]) :
               IsLetter(tokens[i][j]) \/ tokens[i][j] \in {".", ","}
          /\ \A j \in 1..(Len(tokens[i]) - 1) :
               IsLetter(tokens[i][j]) \/ IsLetter(tokens[i][j + 1])

\* A text has been returned with a period inside one token and a period at
\* the end of another, that one cut to 15 characters.
C6_Witness ==
  /\ op = "formatForTyping"
  /\ LET tokens == Tokens(ret.text)
     IN  /\ \E i \in 1..Len(tokens) : Len(tokens[i]) = 3 /\ tokens[i][2] = "."
         /\ \E i \in 1..Len(tokens) : Len(tokens[i]) = 15 /\ tokens[i][15] = "."

\* C7: the returned string is not empty and holds, separated by single
\* spaces, max(20, floor(L / 5.5)) tokens when the words at hand after the
\* fill to 30 are at least that many, and all of those words otherwise; it
\* never holds fewer than 20 tokens.
C7_TokenCount ==
  op = "formatForTyping" =>
    LET tokens    == Tokens(ret.text)
        wanted    == Max(20, (args.targetLength * 10) \div 55)
        available == Len(ShapedWords(args.rawText, rnd, 0))
    IN  /\ ret.text # <<>>
        /\ \A i \in 1..Len(tokens) : tokens[i] # <<>>
        /\ available >= 30
        /\ Len(tokens) = IF wanted <= available THEN wanted ELSE available
        /\ Len(tokens) >= 20

\* A text of 37 words has been cut to its target of 36 tokens.
C7_Witness ==
  /\ op = "formatForTyping"
  /\ args.targetLength = 200
  /\ Len(ShapedWords(args.rawText, rnd, 0)) = 37
  /\ Len(Tokens(ret.text)) = 36

(***************************************************************************)
(* generatePage, generateRandomPage and searchForText calls                *)
(***************************************************************************)

Zeros8 == <<"0", "0", "0", "0", "0", "0", "0", "0">>

PageHexagons == {Zeros8, <<"1", "A", "2", "B", "3", "C", "4", "D">>, <<"f", "f">>}

\* <<wall, shelf, volume, page>>
PageCoords == {<<0, 0, 0, 0>>, <<1, 5, 10, 100>>, <<2, 31, 0, 9>>, <<3, 31, 31, 409>>}

PageLengths == {10, 50}

GeneratePageCalls ==
  {[fn |-> "generatePage", given |-> TRUE, hexagon |-> h, wall |-> c[1],
    shelf |-> c[2], volume |-> c[3], page |-> c[4], length |-> n] :
     h \in PageHexagons, c \in PageCoords, n \in PageLengths}
    \cup {[fn |-> "generatePage", given |-> FALSE]}

RandomPageCalls == {[fn |-> "generateRandomPage", length |-> n] : n \in PageLengths}

\* "", "hi", "cat", "Cat", "hi yo" and twenty letters.
SearchTexts ==
  {<<>>, <<"h", "i">>, <<"c", "a", "t">>, <<"C", "a", "t">>,
   <<"h", "i", " ", "y", "o">>, [i \in 1..20 |-> "a"]}

SearchCalls ==
  {[fn |-> "searchForText", searchText |-> t, length |-> n] :
     t \in SearchTexts, n \in PageLengths}

InitPage ==
  /\ op = "idle"
  /\ args \in GeneratePageCalls \cup RandomPageCalls \cup SearchCalls
  /\ rnd = <<>>
  /\ ret = NoResult
  /\ InitManager

GeneratePage ==
  /\ args.fn = "generatePage"
  /\ \E tape \in Tapes :
       /\ rnd' = tape
       /\ ret' = IF args.given
                 THEN generatePage(args.hexagon, args.wall, args.shelf,
                                   args.volume, args.page, args.length, tape, 0)
                 ELSE generatePageDefaults(tape)
  /\ op' = "generatePage"
  /\ UNCHANGED <<args, managerVars>>

GenerateRandomPage ==
  /\ args.fn = "generateRandomPage"
  /\ \E tape \in Tapes :
       /\ rnd' = tape
       /\ ret' = generateRandomPage(args.length, tape)
  /\ op' = "generateRandomPage"
  /\ UNCHANGED <<args, managerVars>>

SearchForText ==
  /\ args.fn = "searchForText"
  /\ \E tape \in Tapes :
       /\ rnd' = tape
       /\ ret' = searchForText(args.searchText, args.length, tape)
  /\ op' = "searchForText"
  /\ UNCHANGED <<args, managerVars>>

NextPage == GeneratePage \/ GenerateRandomPage \/ SearchForText

SpecPage == InitPage /\ [][NextPage]_vars

(***************************************************************************)
(* Properties of the page operations                                       *)
(***************************************************************************)

PageOps == {"generatePage", "generateRandomPage", "searchForText"}

C8Call ==
  [fn |-> "generatePage", given |-> TRUE, hexagon |-> Zeros8, wall |-> 0,
   shelf |-> 0, volume |-> 0, page |-> 0, length |-> 50]

\* C8: generatePage("00000000", 0, 0, 0, 0, 50) called twice returns the same
\* text and the same seed: neither the random letter padding nor the random
\* filler words reach the text of this call.
C8_SameCallSamePage ==
  [][(op = "generatePage" /\ args = C8Call /\ op' = "generatePage" /\ args' = C8Call)
       => (ret'.text = ret.text /\ ret'.metadata.seed = ret.metadata.seed)]_vars

ClaimedHexagon(s) ==
  LET x == ClaimedStates(s, 8)
  IN  [i \in 1..8 |-> hexChars[(x[i + 1][1] % 16) + 1]]

\* C10: searchForText generates its page at wall = s % 4,
\* shelf = (s >> 2) % 32, volume = (s >> 7) % 32, page = (s >> 12) % 410 for
\* s the seed of the lowercased search text; these lie in the declared
\* ranges, the hexagon is eight hex digits derived from s alone, and so the
\* address is a function of the lowercased search text.
C10_SearchCoordinates ==
  op = "searchForText" =>
    LET s == hashToSeed(ToLowerCase(args.searchText))
        m == ret.metadata
    IN  /\ m.wall = s % 4
        /\ m.shelf = (s \div 4) % 32
        /\ m.volume = (s \div 128) % 32
        /\ m.page = (s \div 4096) % 410
        /\ m.wall \in 0..3 /\ m.shelf \in 0..31
        /\ m.volume \in 0..31 /\ m.page \in 0..409
        /\ m.hexagon = ClaimedHexagon(s)
        /\ Len(m.hexagon) = 8 /\ IsHexString(m.hexagon)
        /\ ret.address = m.hexagon \o <<":">> \o NumberToString(s % 4)
                           \o <<":">> \o NumberToString((s \div 4) % 32)
                           \o <<":">> \o NumberToString((s \div 128) % 32)
                           \o <<":">> \o NumberToString((s \div 4096) % 410)

\* A search text with a capital letter has been searched for, and its page
\* lies at a shelf, a volume and a page that are not 0.
C10_Witness ==
  /\ op = "searchForText"
  /\ args.searchText = <<"C", "a", "t">>
  /\ ret.metadata.shelf > 0
  /\ ret.metadata.volume > 0
  /\ ret.metadata.page > 0

\* C15: the word count recorded in the metadata of every returned page is
\* the number of tokens its text splits into at single spaces, also when the
\* search text embedded in the page contains spaces.
C15_WordCountIsTokenCount ==
  op \in PageOps => ret.metadata.wordCount = Len(Split(ret.text, " "))

(***************************************************************************)
(* CustomWordListsManager                                                  *)
(*                                                                         *)
(* A list is a record with the fields of CustomWordListSchema; this.lists  *)
(* is a sequence of lists.  An id is the record of the two parts           *)
(* generateId reads, the time and the random suffix.  Each call reads the  *)
(* wall clock once.  The store is written and never read after the         *)
(* constructor; what a call's write to it does is an input of the call.    *)
(***************************************************************************)

MaxWordLength == 50

\* `custom_list_${Date.now()}_${Math.random().toString(36).substr(2, 9)}`
generateId(now, suffix) == [time |-> now, suffix |-> suffix]

\* What customWordListsLS.set does: it stores the lists and returns true, or
\* returns false, or throws.
StorageOutcomes == {"stored", "returns false", "throws"}

\* saveToStorage: what set returns, false when it throws.
saveToStorage(outcome) == outcome = "stored"

NonEmpty(s) == Len(s) > 0

CleanWord(word) == ToLowerCase(Trim(word))

ValidWord(word) == Len(word) > 0 /\ Len(word) <= MaxWordLength

\* arr.indexOf(x), from 1; 0 when x is not in arr.
IndexOf(arr, x) ==
  IF \A i \in 1..Len(arr) : arr[i] # x THEN 0
  ELSE CHOOSE i \in 1..Len(arr) : arr[i] = x /\ \A j \in 1..(i - 1) : arr[j] # x

\* arr.filter((word, index, arr) => arr.indexOf(word) === index), on the
\* first n elements of arr.
RECURSIVE FirstOccurrences(_, _)
FirstOccurrences(arr, n) ==
  IF n = 0 THEN <<>>
  ELSE IF IndexOf(arr, arr[n]) = n
       THEN Append(FirstOccurrences(arr, n - 1), arr[n])
       ELSE FirstOccurrences(arr, n - 1)

\* The same filter keeping every occurrence.
cleanWordsKeepDuplicates(words) ==
  SelectSeq([i \in 1..Len(words) |-> CleanWord(words[i])], ValidWord)

\* words.map(trim, lowercase).filter(length).filter(first occurrence)
cleanWords(words) ==
  LET valid == SelectSeq([i \in 1..Len(words) |-> CleanWord(words[i])], ValidWord)
  IN  FirstOccurrences(valid, Len(valid))

\* tags.map(tag => tag.trim().toLowerCase()).filter(tag => tag.length > 0)
cleanTags(tags) ==
  SelectSeq([i \in 1..Len(tags) |-> ToLowerCase(Trim(tags[i]))], NonEmpty)

\* this.lists.findIndex(list => list.id === id), from 1; 0 when there is none.
FindIndex(ls, id) ==
  IF \A i \in 1..Len(ls) : ls[i].id # id THEN 0
  ELSE CHOOSE i \in 1..Len(ls) : ls[i].id = id /\ \A j \in 1..(i - 1) : ls[j].id # id

getListById(ls, id) ==
  IF FindIndex(ls, id) = 0 THEN Null ELSE ls[FindIndex(ls, id)]

\* createList: the lists it leaves and what it returns.  What saveToStorage
\* returns is dropped.
createList(ls, name, words, description, tags, now, suffix) ==
  LET clean   == cleanWords(words)
      newList == [id           |-> generateId(now, suffix),
                  name         |-> Trim(name),
                  words        |-> clean,
                  dateCreated  |-> now,
                  dateModified |-> now,
                  description  |-> Trim(description),
                  tags         |-> cleanTags(tags),
                  isPublic     |-> FALSE]
  IN  IF Len(clean) = 0
      THEN [lists |-> ls, ret |-> Null]
      ELSE [lists |-> Append(ls, newList), ret |-> newList]

\* The list with the fields named in keys taken from updates.
Assigned(list, updates, keys) ==
  [f \in DOMAIN list |->
     IF f \in keys \cap DOMAIN updates
     THEN CASE f = "name"        -> Trim(updates.name)
            [] f = "words"       -> cleanWords(updates.words)
            [] f = "description" -> Trim(updates.description)
            [] f = "tags"        -> cleanTags(updates.tags)
     ELSE list[f]]

\* updateList: updates is a record holding the fields that are not
\* undefined.  list is the object held in this.lists, so a field assigned
\* before the throw stays assigned.
updateList(ls, id, updates, now) ==
  LET listIndex == FindIndex(ls, id)
  IN  IF listIndex = 0 THEN [lists |-> ls, ret |-> FALSE]
      ELSE IF "words" \in DOMAIN updates /\ Len(cleanWords(updates.words)) = 0
      THEN [lists |-> [ls EXCEPT ![listIndex] = Assigned(ls[listIndex], updates, {"name"})],
            ret   |-> FALSE]
      ELSE [lists |-> [ls EXCEPT ![listIndex] =
                         [Assigned(ls[listIndex], updates,
                                   {"name", "words", "description", "tags"})
                            EXCEPT !.dateModified = now]],
            ret   |-> TRUE]

\* this.lists.splice(index, 1)
RemoveAt(ls, index) == SubSeq(ls, 1, index - 1) \o SubSeq(ls, index + 1, Len(ls))

\* deleteList leaving the active list id as it is.
deleteListKeepActive(ls, active, id) ==
  IF FindIndex(ls, id) = 0
  THEN [lists |-> ls, active |-> active, ret |-> FALSE]
  ELSE [lists |-> RemoveAt(ls, FindIndex(ls, id)), active |-> active, ret |-> TRUE]

deleteList(ls, active, id) ==
  IF FindIndex(ls, id) = 0
  THEN [lists |-> ls, active |-> active, ret |-> FALSE]
  ELSE [lists  |-> RemoveAt(ls, FindIndex(ls, id)),
        active |-> IF active = id THEN Null ELSE active,
        ret    |-> TRUE]

setActiveList(ls, active, id) ==
  IF id # Null /\ getListById(ls, id) = Null
  THEN [active |-> active, ret |-> FALSE]
  ELSE [active |-> id, ret |-> TRUE]

\* importFromText with a delimiter of one character; the description is
\* `Imported from text (${words.length} words)` and the tags of the list are
\* createList's default.
importFromText(ls, name, textContent, delimiter, now, suffix) ==
  LET words == SelectSeq([i \in 1..Len(Split(textContent, delimiter)) |->
                            Trim(Split(textContent, delimiter)[i])], NonEmpty)
  IN  IF Len(words) = 0
      THEN [lists |-> ls, ret |-> Null]
      ELSE createList(ls, name, words,
                      <<"I", "m", "p", "o", "r", "t", "e", "d", " ", "f", "r", "o", "m",
                        " ", "t", "e", "x", "t", " ", "(">>
                        \o NumberToString(Len(words))
                        \o <<" ", "w", "o", "r", "d", "s", ")">>,
                      <<>>, now, suffix)

(***************************************************************************)
(* Calls of the manager.  args is the call's arguments; rnd is what the    *)
(* call read of its environment: the clock and the random suffix when it   *)
(* reached them, and what the store did when it was written.               *)
(***************************************************************************)

MaxLists == 1

Times == {1, 2}

Suffixes == {"k3x"}

Ids == {generateId(t, r) : t \in Times, r \in Suffixes}

\* createList with its default description and tags.  The name is " A " or
\* " ".  The words are none; a blank word; a word of 51 letters; or words
\* repeated in other cases and with blanks around them, with a word of 51
\* letters.
CreateCalls ==
  LET long == [i \in 1..(MaxWordLength + 1) |-> "w"]
  IN  {[fn |-> "createList", name |-> n, words |-> w, description |-> <<>>,
        tags |-> <<>>] :
         n \in {<<" ", "A", " ">>, <<" ">>},
         w \in {<<>>,
                <<<<" ">>>>,
                <<long>>,
                <<<<" ", "B">>, long, <<"b", " ">>, <<"a">>, <<"B">>>>}}

\* The updates are {}, {name}, {words}, {name, words} and
\* {description, tags}.
UpdateCalls ==
  {[fn |-> "updateList", id |-> i, updates |-> u] :
     i \in Ids,
     u \in {<<>>,
            [name |-> <<" ">>],
            [words |-> <<>>],
            [name |-> <<" ">>, words |-> <<<<" ">>>>],
            [name |-> <<" ", "A">>,
             words |-> <<<<"b">>, <<" ", "A">>, <<"B", " ">>, <<"a">>>>],
            [description |-> <<" ">>, tags |-> <<<<" ">>>>]}}

DeleteCalls == {[fn |-> "deleteList", id |-> i] : i \in Ids}

SetActiveCalls == {[fn |-> "setActiveList", id |-> i] : i \in Ids \cup {Null}}

\* "" and " \n " read at "\n" (the default), " \n " and "B, b,a" read at ",".
ImportCalls ==
  {[fn |-> "importFromText", name |-> <<"A">>, textContent |-> c[1], delimiter |-> c[2]] :
     c \in {<< <<>>, "\n" >>,
            << <<" ", "\n", " ">>, "\n" >>,
            << <<" ", "\n", " ">>, "," >>,
            << <<"B", ",", " ", "b", ",", "a">>, "," >>}}

NoCall == [fn |-> "none"]

NoEnvironment == [read |-> "nothing"]

InitLists ==
  /\ op = "idle"
  /\ args = NoCall
  /\ rnd = NoEnvironment
  /\ ret = NoResult
  /\ InitManager

\* What a call that adds a list reads: the clock, the random suffix and the
\* store.
AddEnvironments ==
  {[now |-> t, suffix |-> r, storage |-> o] :
     t \in Times, r \in Suffixes, o \in StorageOutcomes}

\* What a call that changes a list reads: the clock and the store.
ChangeEnvironments == {[now |-> t, storage |-> o] : t \in Times, o \in StorageOutcomes}

\* What a call that removes a list reads: the store.
RemoveEnvironments == {[storage |-> o] : o \in StorageOutcomes}

\* The environments a call may read: nothing when it fails before it reads
\* the clock, envs otherwise.
EnvironmentsRead(envs, failed) == IF failed THEN {NoEnvironment} ELSE envs

CreateList ==
  \E call \in CreateCalls :
    \E env \in EnvironmentsRead(AddEnvironments,
                 createList(lists, call.name, call.words, call.description,
                            call.tags, 0, "").ret = Null) :
      LET done == createList(lists, call.name, call.words, call.description,
                             call.tags, env.now, env.suffix)
      IN  /\ Len(done.lists) <= MaxLists
          /\ op' = "createList"
          /\ args' = call
          /\ rnd' = env
          /\ lists' = done.lists
          /\ ret' = done.ret
          /\ UNCHANGED <<currentActiveList, state>>

ImportFromText ==
  \E call \in ImportCalls :
    \E env \in EnvironmentsRead(AddEnvironments,
                 importFromText(lists, call.name, call.textContent,
                                call.delimiter, 0, "").ret = Null) :
      LET done == importFromText(lists, call.name, call.textContent,
                                 call.delimiter, env.now, env.suffix)
      IN  /\ Len(done.lists) <= MaxLists
          /\ op' = "importFromText"
          /\ args' = call
          /\ rnd' = env
          /\ lists' = done.lists
          /\ ret' = done.ret
          /\ UNCHANGED <<currentActiveList, state>>

UpdateList ==
  \E call \in UpdateCalls :
    \E env \in EnvironmentsRead(ChangeEnvironments,
                 ~updateList(lists, call.id, call.updates, 0).ret) :
      LET done == updateList(lists, call.id, call.updates, env.now)
      IN  /\ op' = "updateList"
          /\ args' = call
          /\ rnd' = env
          /\ lists' = done.lists
          /\ ret' = done.ret
          /\ UNCHANGED <<currentActiveList, state>>

DeleteList ==
  \E call \in DeleteCalls :
    LET done == deleteList(lists, currentActiveList, call.id)
    IN  \E env \in EnvironmentsRead(RemoveEnvironments, ~done.ret) :
          /\ op' = "deleteList"
          /\ args' = call
          /\ rnd' = env
          /\ lists' = done.lists
          /\ currentActiveList' = done.active
          /\ ret' = done.ret
          /\ UNCHANGED state

SetActiveList ==
  \E call \in SetActiveCalls :
    LET done == setActiveList(lists, currentActiveList, call.id)
    IN  /\ op' = "setActiveList"
        /\ args' = call
        /\ rnd' = NoEnvironment
        /\ currentActiveList' = done.active
        /\ ret' = done.ret
        /\ UNCHANGED <<lists, state>>

NextLists == CreateList \/ ImportFromText \/ UpdateList \/ DeleteList \/ SetActiveList

SpecLists == InitLists /\ [][NextLists]_vars

(***************************************************************************)
(* Properties of the manager                                               *)
(***************************************************************************)

\* The call recorded in op, args and ret reported failure to its caller.
ReportedFailure(o, r) ==
  \/ o \in {"createList", "importFromText"} /\ r = Null
  \/ o \in {"updateList", "deleteList", "setActiveList"} /\ r = FALSE

\* C11: a call that fails (createList or importFromText returning null,
\* updateList, deleteList or setActiveList returning false) leaves every
\* field of every stored list and the active list id as they were before it.
C11_FailureChangesNothing ==
  [][ReportedFailure(op', ret')
       => (lists' = lists /\ currentActiveList' = currentActiveList)]_vars

\* The call recorded in op and rnd wrote the store, and the write failed:
\* set returned false or threw.
StorageFailed(o, env) ==
  /\ o \in {"createList", "updateList", "deleteList"}
  /\ env # NoEnvironment
  /\ ~saveToStorage(env.storage)

\* C12: when the store's set fails during createList, updateList or
\* deleteList, the call reports failure: createList returns null, updateList
\* and deleteList return false.
C12_StorageFailureIsReported ==
  [][StorageFailed(op', rnd') => ReportedFailure(op', ret')]_vars

\* No word of words is left by the cleaning: trimmed, each is empty or longer
\* than 50 characters.
EmptyAfterCleaning(words) ==
  \A i \in 1..Len(words) : Len(Trim(words[i])) = 0 \/ Len(Trim(words[i])) > 50

EmptyAfterTrimming(name) == \A i \in 1..Len(name) : name[i] \in WhiteSpace

\* The call o with arguments a fails validation: its word list is empty
\* after cleaning or its name is empty after trimming.
FailsValidation(o, a) ==
  \/ /\ o = "createList"
     /\ EmptyAfterCleaning(a.words) \/ EmptyAfterTrimming(a.name)
  \/ /\ o = "importFromText"
     /\ \/ EmptyAfterCleaning(Split(a.textContent, a.delimiter))
        \/ EmptyAfterTrimming(a.name)
  \/ /\ o = "updateList"
     /\ \/ "words" \in DOMAIN a.updates /\ EmptyAfterCleaning(a.updates.words)
        \/ "name" \in DOMAIN a.updates /\ EmptyAfterTrimming(a.updates.name)

\* C13: a createList, importFromText or updateList call whose word list is
\* empty after cleaning, or whose name is empty after trimming, returns the
\* failure sentinel, and createList and importFromText then add no list.
C13_ValidationFailureIsReported ==
  [][FailsValidation(op', args')
       => /\ ReportedFailure(op', ret')
          /\ op' \in {"createList", "importFromText"} => Len(lists') = Len(lists)]_vars

\* The ids of the lists the manager holds.
HeldIds(ls) == {ls[i].id : i \in 1..Len(ls)}

\* C14: the active list id is null or the id of a list the manager holds;
\* setActiveList with an id that no list has returns false and leaves the
\* active id as it was; deleting the active list resets the active id to
\* null.
C14_ActiveListIsHeld ==
  /\ [](currentActiveList = Null \/ currentActiveList \in HeldIds(lists))
  /\ [][/\ (op' = "setActiveList" /\ args'.id # Null /\ args'.id \notin HeldIds(lists))
             => (ret' = FALSE /\ currentActiveList' = currentActiveList)
        /\ (op' = "deleteList" /\ ret' = TRUE /\ args'.id = currentActiveList)
             => currentActiveList' = Null]_vars

\* A list has been made the active list.
C14_Witness ==
  /\ op = "setActiveList"
  /\ ret = TRUE
  /\ currentActiveList # Null
  /\ currentActiveList \in HeldIds(lists)

\* words holds at least one word, no word twice, and each word is trimmed,
\* lowercase and of 1 to 50 characters.
CleanWordList(words) ==
  /\ Len(words) >= 1
  /\ \A i, j \in 1..Len(words) : words[i] = words[j] => i = j
  /\ \A i \in 1..Len(words) :
       /\ Len(words[i]) \in 1..50
       /\ words[i][1] \notin WhiteSpace
       /\ words[i][Len(words[i])] \notin WhiteSpace
       /\ \A k \in 1..Len(words[i]) : words[i][k] \notin Range(UpperLetters)

\* The position in input of the first word that, trimmed and lowercased, is
\* word; 0 when there is none.
FirstPosition(input, word) ==
  IF \A k \in 1..Len(input) : ToLowerCase(Trim(input[k])) # word THEN 0
  ELSE CHOOSE k \in 1..Len(input) :
         /\ ToLowerCase(Trim(input[k])) = word
         /\ \A m \in 1..(k - 1) : ToLowerCase(Trim(input[m])) # word

\* words is the words of input in the order of their first occurrence.
InOrderOfFirstOccurrence(words, input) ==
  /\ \A i \in 1..Len(words) : FirstPosition(input, words[i]) > 0
  /\ \A i, j \in 1..Len(words) :
       i < j => FirstPosition(input, words[i]) < FirstPosition(input, words[j])
  /\ \A k \in 1..Len(input) :
       Len(Trim(input[k])) \in 1..50
         => \E i \in 1..Len(words) : words[i] = ToLowerCase(Trim(input[k]))

\* C17: every list the manager holds has at least one word, its words
\* pairwise distinct, trimmed, lowercase and of length 1..50; the words a
\* createList, importFromText or updateList call stores are the words of its
\* input in the order of their first occurrence.
C17_WordsAreClean ==
  /\ [](\A i \in 1..Len(lists) : CleanWordList(lists[i].words))
  /\ [][/\ (op' \in {"createList", "importFromText"} /\ ret' # Null)
             => /\ lists' = Append(lists, ret')
                /\ InOrderOfFirstOccurrence(ret'.words,
                     IF op' = "createList" THEN args'.words
                     ELSE Split(args'.textContent, args'.delimiter))
        /\ (op' = "updateList" /\ ret' = TRUE /\ "words" \in DOMAIN args'.updates)
             => InOrderOfFirstOccurrence(getListById(lists', args'.id).words,
                                         args'.updates.words)]_vars

\* A list has been created from words that repeat in other cases and that
\* include a word of more than 50 characters.
C17_Witness ==
  /\ op = "createList"
  /\ ret # Null
  /\ Len(lists) >= 1
  /\ \E k \in 1..Len(args.words) : Len(args.words[k]) > 50
  /\ \E k, m \in 1..Len(args.words) :
       k # m /\ ToLowerCase(Trim(args.words[k])) = ToLowerCase(Trim(args.words[m]))

(***************************************************************************)
(* The custom word lists modal                                             *)
(*                                                                         *)
(* state.currentLists is the array getAllLists returned; it holds the      *)
(* manager's own list objects, and is kept here as the sequence of their   *)
(* ids.  The modal draws a create button always, the form with its save    *)
(* and cancel buttons when state.isEditing, and an edit and a delete       *)
(* button for each list of state.currentLists.  updateContent runs to its  *)
(* end before the next click is handled.                                   *)
(***************************************************************************)

getAllLists(ls) == [i \in 1..Len(ls) |-> ls[i].id]

\* Notifications.add(message, level)
Notification(message, level) == [notification |-> message, level |-> level]

handleEditList(st, listId) == [st EXCEPT !.isEditing = TRUE, !.editingListId = listId]

\* text.split(/[\n,]/)
SplitLinesAndCommas(text) ==
  Split([i \in 1..Len(text) |-> IF text[i] = "\n" THEN "," ELSE text[i]], ",")

\* split, map(trim), filter(length > 0)
TrimmedParts(parts) == SelectSeq([i \in 1..Len(parts) |-> Trim(parts[i])], NonEmpty)

\* handleSave on the values of the form's inputs: the modal state and the
\* lists it leaves, and the notification it adds.
handleSave(st, ls, form, now, suffix) ==
  LET name        == Trim(form.name)
      description == Trim(form.description)
      wordsText   == Trim(form.words)
      tagsText    == Trim(form.tags)
      words       == TrimmedParts(SplitLinesAndCommas(wordsText))
      tags        == TrimmedParts(Split(tagsText, ","))
      updated     == updateList(ls, st.editingListId,
                                [name |-> name, description |-> description,
                                 words |-> words, tags |-> tags], now)
      created     == createList(ls, name, words, description, tags, now, suffix)
      closed(l)   == [isEditing |-> FALSE, editingListId |-> Null,
                      currentLists |-> getAllLists(l)]
  IN  IF Len(name) = 0
      THEN [state |-> st, lists |-> ls, ret |-> Notification("List name is required", -1)]
      ELSE IF Len(wordsText) = 0
      THEN [state |-> st, lists |-> ls,
            ret |-> Notification("At least one word is required", -1)]
      ELSE IF st.editingListId # Null
      THEN IF updated.ret
           THEN [state |-> closed(updated.lists), lists |-> updated.lists,
                 ret |-> Notification("List updated successfully", 1)]
           ELSE [state |-> st, lists |-> updated.lists,
                 ret |-> Notification("Failed to update list", -1)]
      ELSE IF created.ret # Null
           THEN [state |-> closed(created.lists), lists |-> created.lists,
                 ret |-> Notification("List created successfully", 1)]
           ELSE [state |-> st, lists |-> created.lists,
                 ret |-> Notification("Failed to create list", -1)]

\* What the click handler of a .deleteBtn did when no notification is added.
NoNotification == [notification |-> "none"]

\* handleDeleteList, confirmed telling what confirm() returned.
handleDeleteList(st, ls, active, listId, confirmed) ==
  LET deleted == deleteList(ls, active, listId)
  IN  IF getListById(ls, listId) = Null
      THEN [state |-> st, lists |-> ls, active |-> active,
            ret |-> Notification("List not found", -1)]
      ELSE IF ~confirmed
      THEN [state |-> st, lists |-> ls, active |-> active, ret |-> NoNotification]
      ELSE IF deleted.ret
      THEN [state |-> [st EXCEPT !.currentLists = getAllLists(deleted.lists)],
            lists |-> deleted.lists, active |-> deleted.active,
            ret |-> Notification("List deleted successfully", 1)]
      ELSE [state |-> st, lists |-> deleted.lists, active |-> deleted.active,
            ret |-> Notification("Failed to delete list", -1)]

(***************************************************************************)
(* Clicks in the modal, shown over an empty store.                         *)
(***************************************************************************)

\* The values of the form's inputs when save is clicked: the name " A " or
\* " "; no words, "b, B\na" or " , "; tags or none.
FormInputs ==
  {[name |-> n, description |-> <<>>, words |-> w, tags |-> t] :
     n \in {<<" ", "A", " ">>, <<" ">>},
     w \in {<<>>, <<"b", ",", " ", "B", "\n", "a">>, <<" ", ",", " ">>},
     t \in {<<>>}}
    \cup {[name |-> <<"B">>, description |-> <<" ", "d">>, words |-> <<"a">>,
           tags |-> <<"T", ",", ",", " ", "u">>]}

ClickCreateNew ==
  /\ op' = "createNew"
  /\ args' = NoCall
  /\ rnd' = NoEnvironment
  /\ ret' = NoNotification
  /\ state' = [state EXCEPT !.isEditing = TRUE, !.editingListId = Null]
  /\ UNCHANGED <<lists, currentActiveList>>

ClickCancel ==
  /\ state.isEditing
  /\ op' = "cancel"
  /\ args' = NoCall
  /\ rnd' = NoEnvironment
  /\ ret' = NoNotification
  /\ state' = [state EXCEPT !.isEditing = FALSE, !.editingListId = Null]
  /\ UNCHANGED <<lists, currentActiveList>>

ClickEdit ==
  \E i \in 1..Len(state.currentLists) :
    /\ op' = "edit"
    /\ args' = [listId |-> state.currentLists[i]]
    /\ rnd' = NoEnvironment
    /\ ret' = NoNotification
    /\ state' = handleEditList(state, state.currentLists[i])
    /\ UNCHANGED <<lists, currentActiveList>>

ClickSave ==
  /\ state.isEditing
  /\ \E form \in FormInputs :
       \E env \in EnvironmentsRead(AddEnvironments,
                    handleSave(state, lists, form, 0, "").ret.level = -1) :
         LET done == handleSave(state, lists, form, env.now, env.suffix)
         IN  /\ Len(done.lists) <= MaxLists
             /\ op' = "save"
             /\ args' = form
             /\ rnd' = env
             /\ ret' = done.ret
             /\ state' = done.state
             /\ lists' = done.lists
             /\ UNCHANGED currentActiveList

ClickDelete ==
  \E i \in 1..Len(state.currentLists), confirmed \in BOOLEAN :
    LET done == handleDeleteList(state, lists, currentActiveList,
                                 state.currentLists[i], confirmed)
    IN  \E env \in EnvironmentsRead(RemoveEnvironments, Len(done.lists) = Len(lists)) :
          /\ op' = "delete"
          /\ args' = [listId |-> state.currentLists[i], confirmed |-> confirmed]
          /\ rnd' = env
          /\ ret' = done.ret
          /\ state' = done.state
          /\ lists' = done.lists
          /\ currentActiveList' = done.active

NextModal == ClickCreateNew \/ ClickCancel \/ ClickEdit \/ ClickSave \/ ClickDelete

SpecModal == InitLists /\ [][NextModal]_vars

\* C16: whenever state.editingListId is not null, it is the id of a list
\* the manager holds: deleting the list that is being edited does not leave
\* the modal editing an id that no list has.
C16_EditedListExists ==
  state.editingListId # Null => state.editingListId \in HeldIds(lists)

====
